---- MODULE Spec2Model ----
(***************************************************************************)
(* State-machine model of the mediaworld price scraper: src/src/scraper.py *)
(* (main, get_categories, get_num_pages, get_prices, the dedup registry    *)
(* to_be_inserted and its lock) and src/src/db.py (PriceTrack and the      *)
(* transactional session of PostgresManager).                              *)
(***************************************************************************)
EXTENDS Integers, Sequences, FiniteSets, TLC

\* ------------------------------------------------------------------ bounds
\* Largest data-pagination-total a first page reports.
MaxTotal == 2
\* Largest data-pagination-count a first page reports.
MaxPerPage == 2
\* Most product entries on one listing page.
MaxEntries == 2
\* Threads of the ThreadPoolExecutor.
MaxWorkers == 2
\* Last value of the wall clock.
MaxClock == 1

\* ------------------------------------------------------- values and inputs
\* An attribute that the markup does not carry.
NoAttr == "<absent>"
\* scrape_timestamp of main before line 122 has run.
NoTime == -1
\* to_be_inserted_lock held by nobody.
NoTask == 0

\* Category menus the main page can show, in document order: one record per
\* category, with its sub-categories in the order of their links.
CategoryMenus ==
    { << >>,
      << [category |-> "tv", sub_categories |-> <<"led">>] >>,
      << [category |-> "tv", sub_categories |-> <<"led">>],
         [category |-> "audio", sub_categories |-> <<"hifi">>] >> }

\* Product entries a listing page can hold: the data-pcode and data-gtm-price
\* attributes of one element and the text of its product-name div.
Entries ==
    { [pcode |-> "P1", name |-> "phone", gtm_price |-> "9.99"],
      [pcode |-> "P2", name |-> "radio", gtm_price |-> "19.5"],
      [pcode |-> "P2", name |-> "radio", gtm_price |-> NoAttr],
      [pcode |-> "P1", name |-> "phone", gtm_price |-> "n/a"],
      [pcode |-> NoAttr, name |-> "cable", gtm_price |-> "9.99"] }

RECURSIVE SeqsUpTo(_, _)
SeqsUpTo(S, n) ==
    IF n = 0 THEN { << >> }
    ELSE LET shorter == SeqsUpTo(S, n - 1)
         IN  shorter \cup { Append(s, e) : s \in shorter, e \in S }

\* The listing pages a fetch can return.
ListingPages == SeqsUpTo(Entries, MaxEntries)

\* float(): the strings Python parses as a number, as hundredths.
FloatTable == [s \in {"9.99", "19.5"} |-> IF s = "9.99" THEN 999 ELSE 1950]
IsFloat(s) == s \in DOMAIN FloatTable
Float(s) == FloatTable[s]

\* total // count: the quotient rounded down.
Floor(total, count) == total \div count

\* int(ceil(total / count)) for count > 0.
Ceil(total, count) ==
    IF total % count = 0 THEN total \div count ELSE (total \div count) + 1

VARIABLES
    clock,                    \* datetime.now(), as time since main was entered
    main_pc,                  \* position of main()
    scrape_timestamp,         \* local of main, line 122
    categories,               \* local of main, line 125
    probes,                   \* the futures of pool.map(get_num_pages, ...)
    collected,                \* how many results list(...) has taken
    categories_and_num_pages, \* local of main, line 130
    submitted,                \* how many page tasks lines 143-147 have submitted
    tasks,                    \* the futures of pool.submit(get_prices, ...)
    queue,                    \* work queue of the pool
    to_be_inserted,           \* module global, line 76
    to_be_inserted_lock,      \* module global, line 75: its holder
    offered,                  \* history: the product ids of the candidates of line 109
    admitted,                 \* history: (product id, task) for every candidate kept by line 111
    contested,                \* history: the product ids offered at line 110 by a task of another category pair than their first claimer's
    first_claim,              \* history: (product id, first task that took the lock offering it)
    db                        \* rows of table price_track

vars == << clock, main_pc, scrape_timestamp, categories, probes, collected,
           categories_and_num_pages, submitted, tasks, queue, to_be_inserted,
           to_be_inserted_lock, offered, admitted, contested, first_claim,
           db >>

\* ----------------------------------------------------------------- helpers
RECURSIVE PairsOf(_, _)
\* (category, sub_category) for sub_category in subs, lines 134-136.
PairsOf(category, subs) ==
    IF subs = << >> THEN << >>
    ELSE << [category |-> category, sub_category |-> Head(subs)] >>
         \o PairsOf(category, Tail(subs))

RECURSIVE Pairs(_)
\* The argument list of pool.map, lines 133-137.
Pairs(menu) ==
    IF menu = << >> THEN << >>
    ELSE PairsOf(Head(menu).category, Head(menu).sub_categories)
         \o Pairs(Tail(menu))

\* range(num_pages): the pages numbered from 0.
PageRangeFromZero(num_pages) == [k \in 1 .. num_pages |-> k - 1]

\* range(1, num_pages + 1), line 146.
PageRange(num_pages) == [k \in 1 .. num_pages |-> k]

\* The argument tuples of one triple, one per page of its range, line 144.
PagesOf(triple, ts) ==
    LET pages == PageRange(triple.num_pages)
    IN  [k \in DOMAIN pages |->
            [category |-> triple.category, sub_category |-> triple.sub_category,
             page |-> pages[k], scrape_timestamp |-> ts]]

RECURSIVE PageTasks(_, _)
\* The argument tuples of pool.submit in submission order, lines 143-147.
PageTasks(triples, ts) ==
    IF triples = << >> THEN << >>
    ELSE PagesOf(Head(triples), ts) \o PageTasks(Tail(triples), ts)

\* Positions of get_prices at which a pool thread is executing it.
TaskRunning == {"fetch", "lock", "update", "store"}
\* Positions of get_prices after which its future is finished.
TaskFinished == {"done", "failed"}

\* Positions of get_num_pages at which a pool thread is executing it.
ProbeRunning == {"running", "parsed"}

\* Pool threads that are executing a work item.
Busy ==
    Cardinality({i \in DOMAIN probes : probes[i].state \in ProbeRunning})
    + Cardinality({t \in DOMAIN tasks : tasks[t].pc \in TaskRunning})

\* A pool thread is free to take the next work item.
WorkerFree == Busy < MaxWorkers

\* Executor.shutdown(wait=False): returns at once.
PoolNotAwaited == TRUE

\* Executor.shutdown(wait=True): every thread has drained the queue and ended.
PoolDrained == queue = << >> /\ Busy = 0

\* A lock that does not exclude: the block is entered whoever holds it.
LockIgnored == TRUE

\* The with statement of threading.Lock: only a free lock is acquired.
LockFree == to_be_inserted_lock = NoTask

\* -------------------------------------------------------------------- Init
Init ==
    /\ clock = 0
    /\ main_pc = "start"
    /\ scrape_timestamp = NoTime
    /\ categories = << >>
    /\ probes = << >>
    /\ collected = 0
    /\ categories_and_num_pages = << >>
    /\ submitted = 0
    /\ tasks = << >>
    /\ queue = << >>
    /\ to_be_inserted = {}
    /\ to_be_inserted_lock = NoTask
    /\ offered = {}
    /\ admitted = {}
    /\ contested = {}
    /\ first_claim = {}
    /\ db = {}

\* Time passes; the clock reads the time since main was entered.
Tick ==
    /\ main_pc # "start"
    /\ clock < MaxClock
    /\ clock' = clock + 1
    /\ UNCHANGED << main_pc, scrape_timestamp, categories, probes, collected,
                    categories_and_num_pages, submitted, tasks, queue,
                    to_be_inserted, to_be_inserted_lock, offered, admitted,
                    contested, first_claim, db >>

\* -------------------------------------------------------------------- main
\* Line 122: scrape_timestamp = datetime.now().
main_timestamp ==
    /\ main_pc = "start"
    /\ scrape_timestamp' = clock
    /\ main_pc' = "get_categories"
    /\ UNCHANGED << clock, categories, probes, collected,
                    categories_and_num_pages, submitted, tasks, queue,
                    to_be_inserted, to_be_inserted_lock, offered, admitted,
                    contested, first_claim, db >>

\* Line 125: get_categories() returns the menu, or raises (request or markup
\* failure, lines 35-38), which ends main before the pool exists.
get_categories ==
    /\ main_pc = "get_categories"
    /\ \/ \E menu \in CategoryMenus :
             /\ categories' = menu
             /\ main_pc' = "pool_map"
       \/ /\ main_pc' = "crashed"
          /\ UNCHANGED categories
    /\ UNCHANGED << clock, scrape_timestamp, probes, collected,
                    categories_and_num_pages, submitted, tasks, queue,
                    to_be_inserted, to_be_inserted_lock, offered, admitted,
                    contested, first_claim, db >>

\* Lines 131-138: pool.map submits one get_num_pages call per pair, all of
\* them before the first result is awaited.
pool_map ==
    /\ main_pc = "pool_map"
    /\ LET pairs == Pairs(categories)
       IN  /\ probes' = [i \in 1 .. Len(pairs) |->
                            [category |-> pairs[i].category,
                             sub_category |-> pairs[i].sub_category,
                             state |-> "pending", pagination_count |-> 0,
                             pagination_total |-> 0, num_pages |-> 0,
                             error |-> ""]]
           /\ queue' = [i \in 1 .. Len(pairs) |-> [kind |-> "probe", index |-> i]]
    /\ main_pc' = "collect"
    /\ UNCHANGED << clock, scrape_timestamp, categories, collected,
                    categories_and_num_pages, submitted, tasks,
                    to_be_inserted, to_be_inserted_lock, offered, admitted,
                    contested, first_claim, db >>

\* A pool thread takes a get_num_pages call from the head of the queue.
get_num_pages_start(i) ==
    /\ queue # << >>
    /\ Head(queue) = [kind |-> "probe", index |-> i]
    /\ WorkerFree
    /\ queue' = Tail(queue)
    /\ probes' = [probes EXCEPT ![i].state = "running"]
    /\ UNCHANGED << clock, main_pc, scrape_timestamp, categories, collected,
                    categories_and_num_pages, submitted, tasks,
                    to_be_inserted, to_be_inserted_lock, offered, admitted,
                    contested, first_claim, db >>

\* Lines 53-65: the first page is fetched and its pagination span read. The
\* request or the search for the span raises (lines 53-61), or the two
\* attributes give pagination_count and pagination_total.
get_num_pages_read(i) ==
    /\ probes[i].state = "running"
    /\ \/ probes' = [probes EXCEPT ![i].state = "error",
                                   ![i].error = "discovery"]
       \/ \E count \in 0 .. MaxPerPage, total \in 0 .. MaxTotal :
             probes' = [probes EXCEPT ![i].state = "parsed",
                                      ![i].pagination_count = count,
                                      ![i].pagination_total = total]
    /\ UNCHANGED << clock, main_pc, scrape_timestamp, categories, collected,
                    categories_and_num_pages, submitted, tasks, queue,
                    to_be_inserted, to_be_inserted_lock, offered, admitted,
                    contested, first_claim, db >>

\* get_num_pages has returned or raised: its future is finished and its
\* locals are gone.
ProbeReturned(probe, state, num_pages, error) ==
    [probe EXCEPT !.state = state, !.num_pages = num_pages, !.error = error,
                  !.pagination_count = 0, !.pagination_total = 0]

\* Lines 66-69: the division of line 66 raises ZeroDivisionError for a
\* pagination_count of 0; otherwise the page count is returned.
get_num_pages(i) ==
    /\ probes[i].state = "parsed"
    /\ IF probes[i].pagination_count = 0
       THEN probes' = [probes EXCEPT
                ![i] = ProbeReturned(@, "error", 0, "ZeroDivisionError")]
       ELSE probes' = [probes EXCEPT
                ![i] = ProbeReturned(@, "done",
                           Ceil(probes[i].pagination_total,
                                probes[i].pagination_count), "")]
    /\ UNCHANGED << clock, main_pc, scrape_timestamp, categories, collected,
                    categories_and_num_pages, submitted, tasks, queue,
                    to_be_inserted, to_be_inserted_lock, offered, admitted,
                    contested, first_claim, db >>

\* The futures of pool.map that future.cancel() cancels: those not yet taken
\* by a thread.
Cancelled(fs) ==
    [i \in DOMAIN fs |->
        IF fs[i].state = "pending" THEN [fs[i] EXCEPT !.state = "cancelled"]
        ELSE fs[i]]

\* The results are no longer awaited once the first one is in.
FirstCollected == collected >= 1 \/ collected = Len(probes)

\* list(pool.map(...)) has taken every result, line 130.
AllCollected == collected = Len(probes)

\* Lines 130-139: list() takes the results in submission order. A result that
\* is an exception is re-raised in main: the iterator cancels the futures not
\* yet started and the exception leaves the with block.
collect ==
    /\ main_pc = "collect"
    /\ IF AllCollected
       THEN /\ main_pc' = "submit"
            /\ UNCHANGED << probes, queue, collected, categories_and_num_pages >>
       ELSE LET i == collected + 1
            IN  \/ /\ probes[i].state = "done"
                   /\ categories_and_num_pages' =
                          Append(categories_and_num_pages,
                                 [category |-> probes[i].category,
                                  sub_category |-> probes[i].sub_category,
                                  num_pages |-> probes[i].num_pages])
                   /\ collected' = i
                   /\ UNCHANGED << main_pc, probes, queue >>
                \/ /\ probes[i].state = "error"
                   /\ probes' = Cancelled(probes)
                   /\ queue' = << >>
                   /\ main_pc' = "unwind"
                   /\ UNCHANGED << collected, categories_and_num_pages >>
    /\ UNCHANGED << clock, scrape_timestamp, categories, submitted, tasks,
                    to_be_inserted, to_be_inserted_lock, offered, admitted,
                    contested, first_claim, db >>

\* Lines 143-147: the next get_prices call is submitted to the pool; after
\* the last one main reaches the end of the with block.
submit ==
    /\ main_pc = "submit"
    /\ LET all == PageTasks(categories_and_num_pages, scrape_timestamp)
       IN  IF submitted < Len(all)
           THEN /\ tasks' = Append(tasks,
                        [category |-> all[submitted + 1].category,
                         sub_category |-> all[submitted + 1].sub_category,
                         page |-> all[submitted + 1].page,
                         scrape_timestamp |-> all[submitted + 1].scrape_timestamp,
                         pc |-> "queued", runs |-> 0, sessions |-> 0,
                         error |-> "", listed |-> << >>,
                         price_tracks |-> << >>])
                /\ queue' = Append(queue, [kind |-> "page", index |-> Len(tasks) + 1])
                /\ submitted' = submitted + 1
                /\ UNCHANGED main_pc
           ELSE /\ main_pc' = "shutdown"
                /\ UNCHANGED << tasks, queue, submitted >>
    /\ UNCHANGED << clock, scrape_timestamp, categories, probes, collected,
                    categories_and_num_pages,
                    to_be_inserted, to_be_inserted_lock, offered, admitted,
                    contested, first_claim, db >>

\* Line 128, leaving the with block: shutdown(wait=True) returns when the
\* pool is drained; then main logs "Scraping done" (line 150) or, when an
\* exception is leaving the block, main ends with that exception.
pool_exit ==
    /\ main_pc \in {"shutdown", "unwind"}
    /\ PoolDrained
    /\ main_pc' = IF main_pc = "shutdown" THEN "done" ELSE "raised"
    /\ UNCHANGED << clock, scrape_timestamp, categories, probes, collected,
                    categories_and_num_pages, submitted, tasks, queue,
                    to_be_inserted, to_be_inserted_lock, offered, admitted,
                    contested, first_claim, db >>

\* --------------------------------------------------------------- get_prices
\* Line 92: the elements of the page that carry a data-pcode attribute.
Elements(page) == SelectSeq(page, LAMBDA el : el.pcode # NoAttr)

\* Line 105: float(el.attrs["data-gtm-price"]) returns (no KeyError, no
\* ValueError).
Convertible(el) == IsFloat(el.gtm_price)

\* _element_to_product_info stamping the time of the conversion.
ElementToProductInfoNow(el, category, sub_category, ts) ==
    [store |-> "mediaworld",
     product_id |-> el.pcode,
     product_name |-> el.name,
     category_1 |-> category,
     category_2 |-> sub_category,
     price |-> Float(el.gtm_price),
     scrape_timestamp |-> clock]

\* Lines 97-107: _element_to_product_info.
ElementToProductInfo(el, category, sub_category, ts) ==
    [store |-> "mediaworld",
     product_id |-> el.pcode,
     product_name |-> el.name,
     category_1 |-> category,
     category_2 |-> sub_category,
     price |-> Float(el.gtm_price),
     scrape_timestamp |-> ts]

\* Line 109: the list comprehension over the elements.
PriceTracks(elements, category, sub_category, ts) ==
    [k \in DOMAIN elements |->
        ElementToProductInfo(elements[k], category, sub_category, ts)]

\* The product ids of a list of PriceTrack objects.
Ids(price_tracks) == { price_tracks[k].product_id : k \in DOMAIN price_tracks }

\* History: the data-pcode of the entries of a page that have both an
\* identifier and a numeric price, in page order.
WellFormed(page) ==
    LET good == SelectSeq(page, LAMBDA el : el.pcode # NoAttr /\ Convertible(el))
    IN  [k \in DOMAIN good |-> good[k].pcode]

\* Line 111 without its condition: every candidate is kept.
AdmitAll(price_tracks, registry) == price_tracks

\* Line 111: the candidates whose product_id is not in the registry.
Admit(price_tracks, registry) ==
    SelectSeq(price_tracks, LAMBDA p : p.product_id \notin registry)

\* Primary key of table price_track, db.py lines 17-23.
Key(row) == << row.store, row.product_id, row.scrape_timestamp >>

\* The INSERTs of a batch meet the primary key constraint: no two rows of the
\* batch, and no row of the batch and of the table, share a key.
KeysFree(table, batch) ==
    /\ \A j, k \in DOMAIN batch : j # k => Key(batch[j]) # Key(batch[k])
    /\ \A k \in DOMAIN batch : \A row \in table : Key(row) # Key(batch[k])

\* session.add in place of add_all: only the first object is added.
CommitFirst(table, batch) == table \cup { batch[1] }

\* db.py line 48: session.commit() makes the added objects rows of the table.
Commit(table, batch) == table \cup { batch[k] : k \in DOMAIN batch }

\* A rollback that keeps the last INSERT of the failed session.
RollbackButLast(table, batch) == table \cup { batch[Len(batch)] }

\* A rollback that also undoes what other sessions committed.
RollbackAll(table, batch) == {}

\* db.py line 52: session.rollback() leaves the table as it was.
Rollback(table, batch) == table

\* Line 114 without its test: the session is opened for every batch.
AnyBatch(price_tracks) == TRUE

\* Line 114: "if price_tracks:" is true of a non-empty list.
HasBatch(price_tracks) == price_tracks # << >>

\* Line 115, db.py line 44: db.session() makes a new session. History: the
\* sessions the task has opened.
Session(task) == [task EXCEPT !.sessions = @ + 1]

\* get_prices has returned or raised: its future is finished and its locals
\* are gone.
Returned(task, pc, error) ==
    [task EXCEPT !.pc = pc, !.error = error, !.listed = << >>,
                 !.price_tracks = << >>]

\* A pool thread takes a get_prices call from the head of the queue.
get_prices_start(t) ==
    /\ queue # << >>
    /\ Head(queue) = [kind |-> "page", index |-> t]
    /\ WorkerFree
    /\ queue' = Tail(queue)
    /\ tasks' = [tasks EXCEPT ![t].pc = "fetch", ![t].runs = @ + 1]
    /\ UNCHANGED << clock, main_pc, scrape_timestamp, categories, probes,
                    collected, categories_and_num_pages, submitted,
                    to_be_inserted, to_be_inserted_lock, offered, admitted,
                    contested, first_claim, db >>

\* Lines 85-109: the page is fetched and its elements converted. The request
\* raises or the page has no search-product-list-content (line 92 raises on
\* None); or the page is read and line 109 converts every element, raising
\* at the first one that does not convert.
get_prices_fetch(t) ==
    /\ tasks[t].pc = "fetch"
    /\ \/ tasks' = [tasks EXCEPT ![t].pc = "failed", ![t].error = "fetch"]
       \/ \E page \in ListingPages :
             LET elements == Elements(page)
             IN  IF \A k \in DOMAIN elements : Convertible(elements[k])
                 THEN tasks' = [tasks EXCEPT
                         ![t].pc = "lock",
                         ![t].listed = WellFormed(page),
                         ![t].price_tracks =
                             PriceTracks(elements, tasks[t].category,
                                         tasks[t].sub_category,
                                         tasks[t].scrape_timestamp)]
                 ELSE tasks' = [tasks EXCEPT
                         ![t].pc = "failed",
                         ![t].listed = WellFormed(page),
                         ![t].error = "extract"]
    /\ offered' = offered \cup Ids(tasks'[t].price_tracks)
    /\ UNCHANGED << clock, main_pc, scrape_timestamp, categories, probes,
                    collected, categories_and_num_pages, submitted, queue,
                    to_be_inserted, to_be_inserted_lock, admitted, contested,
                    first_claim, db >>

\* Lines 110-111: the lock is taken and the candidates already in the
\* registry are filtered out.
get_prices_filter(t) ==
    /\ tasks[t].pc = "lock"
    /\ LockFree
    /\ to_be_inserted_lock' = t
    /\ first_claim' = first_claim \cup
            { << id, t >> : id \in { c \in Ids(tasks[t].price_tracks) :
                                       \A w \in first_claim : w[1] # c } }
    /\ tasks' = [tasks EXCEPT
            ![t].pc = "update",
            ![t].price_tracks = Admit(tasks[t].price_tracks, to_be_inserted)]
    /\ admitted' = admitted \cup
            { << id, t >> : id \in Ids(tasks'[t].price_tracks) }
    /\ contested' = contested \cup
            { id \in Ids(tasks[t].price_tracks) :
                \E w \in first_claim :
                    /\ w[1] = id
                    /\ << tasks[w[2]].category, tasks[w[2]].sub_category >>
                         # << tasks[t].category, tasks[t].sub_category >> }
    /\ UNCHANGED << clock, main_pc, scrape_timestamp, categories, probes,
                    collected, categories_and_num_pages, submitted, queue,
                    to_be_inserted, offered, db >>

\* The lock taken at line 110 and not released: its holder keeps it.
Held(t) == t

\* End of the with block of lines 110-112: the lock is released.
Released(t) == NoTask

\* Line 112 as an assignment: the registry becomes the ids of this batch.
Assign(registry, price_tracks) == Ids(price_tracks)

\* Line 112: to_be_inserted.update(...) adds the ids of the admitted batch.
Update(registry, price_tracks) == registry \cup Ids(price_tracks)

\* Line 112 and the end of the with block: the admitted ids are added to the
\* registry and the lock is released.
get_prices_update(t) ==
    /\ tasks[t].pc = "update"
    /\ to_be_inserted' = Update(to_be_inserted, tasks[t].price_tracks)
    /\ to_be_inserted_lock' = Released(t)
    /\ tasks' = [tasks EXCEPT ![t].pc = "store"]
    /\ UNCHANGED << clock, main_pc, scrape_timestamp, categories, probes,
                    collected, categories_and_num_pages, submitted, queue,
                    offered, admitted, contested, first_claim, db >>

\* Lines 114-118: a non-empty batch is added in one session, which commits
\* (db.py line 48) or, on any exception, rolls back and re-raises (db.py
\* lines 51-54); an empty batch opens no session.
get_prices_store(t) ==
    /\ tasks[t].pc = "store"
    /\ IF HasBatch(tasks[t].price_tracks)
       THEN \/ /\ KeysFree(db, tasks[t].price_tracks)
               /\ db' = Commit(db, tasks[t].price_tracks)
               /\ tasks' = [tasks EXCEPT
                       ![t] = Returned(Session(@), "done", "")]
            \/ /\ db' = Rollback(db, tasks[t].price_tracks)
               /\ tasks' = [tasks EXCEPT
                       ![t] = Returned(Session(@), "failed", "store")]
       ELSE /\ tasks' = [tasks EXCEPT ![t] = Returned(@, "done", "")]
            /\ UNCHANGED db
    /\ UNCHANGED << clock, main_pc, scrape_timestamp, categories, probes,
                    collected, categories_and_num_pages, submitted, queue,
                    to_be_inserted, to_be_inserted_lock, offered, admitted,
                    contested, first_claim >>

\* ----------------------------------------------------------- specification
Next ==
    \/ Tick
    \/ main_timestamp
    \/ get_categories
    \/ pool_map
    \/ \E i \in DOMAIN probes : get_num_pages_start(i)
    \/ \E i \in DOMAIN probes : get_num_pages_read(i)
    \/ \E i \in DOMAIN probes : get_num_pages(i)
    \/ collect
    \/ submit
    \/ pool_exit
    \/ \E t \in DOMAIN tasks : get_prices_start(t)
    \/ \E t \in DOMAIN tasks : get_prices_fetch(t)
    \/ \E t \in DOMAIN tasks : get_prices_filter(t)
    \/ \E t \in DOMAIN tasks : get_prices_update(t)
    \/ \E t \in DOMAIN tasks : get_prices_store(t)

Spec == Init /\ [][Next]_vars

\* main() is called again in the same process after an earlier call ended
\* (returned, or raised to a caller that caught the exception). The call has
\* fresh locals and a fresh pool; the module globals of lines 75-76 and the
\* table are what the earlier run left. The second call is followed up to
\* its entry, line 121.
main_again ==
    /\ main_pc \in {"done", "raised", "crashed"}
    /\ main_pc' = "again"
    /\ scrape_timestamp' = NoTime
    /\ categories' = << >>
    /\ probes' = << >>
    /\ collected' = 0
    /\ categories_and_num_pages' = << >>
    /\ submitted' = 0
    /\ tasks' = << >>
    /\ queue' = << >>
    /\ offered' = {}
    /\ admitted' = {}
    /\ contested' = {}
    /\ first_claim' = {}
    /\ UNCHANGED << clock, to_be_inserted, to_be_inserted_lock, db >>

NextRerun ==
    \/ Next
    \/ main_again

\* The runs of a process that calls main a second time.
SpecRerun == Init /\ [][NextRerun]_vars

\* ------------------------------------------------------------------ claims
\* The tasks whose line 111 kept product id.
Admitters(id) == { t \in DOMAIN tasks : << id, t >> \in admitted }

\* Some task holds id as a candidate and has not finished lines 110-112.
ClaimPending(id) ==
    \E t \in DOMAIN tasks :
        /\ tasks[t].pc \in {"lock", "update"}
        /\ id \in Ids(tasks[t].price_tracks)

\* The rows of the table for product id.
RowsOf(id) == { row \in db : row.product_id = id }

\* Task t is the task that wrote row, as far as the row tells.
TaggedBy(row, t) ==
    /\ row.category_1 = tasks[t].category
    /\ row.category_2 = tasks[t].sub_category

\* C1: in every interleaving of the page tasks, no product id is admitted by
\* two different tasks, and every product id that some task offered is, once
\* no task offering it is still before the end of its claim step, admitted by
\* exactly one task and in to_be_inserted.
C1_AdmittedExactlyOnce ==
    \A id \in offered \cup { a[1] : a \in admitted } :
        /\ Cardinality(Admitters(id)) <= 1
        /\ ~ClaimPending(id) =>
              /\ Cardinality(Admitters(id)) = 1
              /\ id \in to_be_inserted

\* C1 witness: the run is over, P1 was listed by tasks of two category pairs,
\* and one task admitted it.
C1_Witness ==
    /\ main_pc = "done"
    /\ "P1" \in contested
    /\ Cardinality(Admitters("P1")) = 1

\* C2: every record created in a run carries the scrape_timestamp that main
\* captured, and main captures it before the category fetch and before any
\* probe or page task exists.
C2_OneTimestamp ==
    /\ \A row \in db : row.scrape_timestamp = scrape_timestamp
    /\ \A t \in DOMAIN tasks :
          /\ tasks[t].scrape_timestamp = scrape_timestamp
          /\ \A k \in DOMAIN tasks[t].price_tracks :
                tasks[t].price_tracks[k].scrape_timestamp = scrape_timestamp
    /\ main_pc # "start" => scrape_timestamp # NoTime
    /\ main_pc \in {"start", "get_categories"} =>
          categories = << >> /\ probes = << >> /\ tasks = << >>

\* C2 witness: time has passed since the capture, one task's rows are
\* committed and another task has converted its page.
C2_Witness ==
    /\ clock > scrape_timestamp
    /\ db # {}
    /\ \E t \in DOMAIN tasks :
          tasks[t].pc = "lock" /\ tasks[t].price_tracks # << >>

\* main has ended: normally, or with the exception of a probe.
MainEnded == main_pc \in {"done", "raised"}

\* The page tasks submitted for probe i and page number page.
TasksFor(i, page) ==
    { t \in DOMAIN tasks :
        /\ tasks[t].category = probes[i].category
        /\ tasks[t].sub_category = probes[i].sub_category
        /\ tasks[t].page = page }

\* C3: when the probe of one pair fails, the run is not aborted and a page
\* task is still submitted for every page of every pair whose probe
\* succeeded.
C3_ProbeFailureSkipsPair ==
    (MainEnded /\ \E i \in DOMAIN probes : probes[i].state = "error") =>
        /\ main_pc = "done"
        /\ \A i \in DOMAIN probes :
              probes[i].state = "done" =>
                  \A page \in 1 .. probes[i].num_pages : TasksFor(i, page) # {}

\* C4: a page task whose fetch fails admits and persists nothing, and when
\* the run is over every submitted task has finished; every row of the table
\* was admitted by a task that returned normally, and every record admitted
\* by such a task is a row of the table.
C4_FetchFailureIsLocal ==
    /\ \A t \in DOMAIN tasks :
          tasks[t].error = "fetch" => \A a \in admitted : a[2] # t
    /\ main_pc = "done" => \A t \in DOMAIN tasks : tasks[t].pc \in TaskFinished
    /\ \A row \in db :
          \E a \in admitted :
              /\ a[1] = row.product_id
              /\ tasks[a[2]].pc = "done"
              /\ TaggedBy(row, a[2])
    /\ \A a \in admitted :
          tasks[a[2]].pc = "done" =>
              \E row \in db : row.product_id = a[1] /\ TaggedBy(row, a[2])

\* C4 witness: the run is over, one task failed in its fetch and another
\* task's admitted record is in the table.
C4_Witness ==
    /\ main_pc = "done"
    /\ \E t \in DOMAIN tasks : tasks[t].error = "fetch"
    /\ \E a \in admitted :
          /\ tasks[a[2]].pc = "done"
          /\ \E row \in db : row.product_id = a[1] /\ TaggedBy(row, a[2])

\* C5: a task that has read its page produces a candidate for every entry of
\* the page that has an identifier and a numeric price, whatever the other
\* entries of the page are.
C5_MalformedEntryDropped ==
    \A t \in DOMAIN tasks :
        (tasks[t].pc = "lock" \/ tasks[t].error = "extract") =>
            tasks[t].listed =
                [k \in DOMAIN tasks[t].price_tracks |->
                    tasks[t].price_tracks[k].product_id]

\* The task that first took the lock while offering product id.
FirstClaimers(id) == { w[2] : w \in { c \in first_claim : c[1] = id } }

\* C6 as stated: at the end of the run a product id listed by tasks of two
\* category pairs has exactly one row, tagged with the categories of the task
\* that took the lock first.
C6_ExactlyOneSnapshot ==
    main_pc = "done" =>
        \A id \in contested :
            /\ Cardinality(RowsOf(id)) = 1
            /\ \A row \in RowsOf(id) : \A w \in FirstClaimers(id) : TaggedBy(row, w)

\* C6 amended: at the end of the run a product id listed by tasks of two
\* category pairs has at most one row; it has one, tagged with the
\* categories of the task that took the lock first, when that task's write
\* committed, and none when that task's write failed.
C6_AtMostOneSnapshot ==
    main_pc = "done" =>
        \A id \in contested :
            /\ Cardinality(FirstClaimers(id)) = 1
            /\ \A w \in FirstClaimers(id) :
                  /\ Cardinality(RowsOf(id)) =
                         IF tasks[w].pc = "done" THEN 1 ELSE 0
                  /\ tasks[w].pc # "done" => tasks[w].error = "store"
                  /\ \A row \in RowsOf(id) : TaggedBy(row, w)

\* C6 witness: the run is over and P1, listed by tasks of two category pairs,
\* has its row.
C6_Witness ==
    /\ main_pc = "done"
    /\ "P1" \in contested
    /\ RowsOf("P1") # {}

\* C7: a step in which the storage write of task t fails leaves the table as
\* it was, with every committed row, and leaves every other task, the queue
\* and the registry untouched, so that the other tasks go on to commit.
C7_StoreFailureIsLocal ==
    [][\A t \in DOMAIN tasks :
          (tasks[t].pc = "store" /\ tasks'[t].error = "store") =>
              /\ db' = db
              /\ queue' = queue
              /\ to_be_inserted' = to_be_inserted
              /\ to_be_inserted_lock' = to_be_inserted_lock
              /\ \A u \in DOMAIN tasks : u # t => tasks'[u] = tasks[u]]_vars

\* C7 witness: the run is over, the write of one task failed, and the table
\* holds the rows another task committed.
C7_Witness ==
    /\ main_pc = "done"
    /\ \E t \in DOMAIN tasks : tasks[t].error = "store"
    /\ \E a \in admitted :
          /\ tasks[a[2]].pc = "done"
          /\ RowsOf(a[1]) # {}

\* C8: main has not ended while a submitted page task is queued or running.
C8_RunEndsAfterTasks ==
    MainEnded =>
        /\ queue = << >>
        /\ \A t \in DOMAIN tasks : tasks[t].pc \in TaskFinished

\* C8 witness: main has logged "Scraping done" after two tasks, one that
\* returned and one that raised.
C8_Witness ==
    /\ main_pc = "done"
    /\ \E t, u \in DOMAIN tasks : tasks[t].pc = "done" /\ tasks[u].pc = "failed"

\* C9: while a page task exists, every probe has returned its page count and
\* main has taken every probe's result; the task's pair is one of the probed
\* pairs.
C9_TasksAfterProbes ==
    tasks # << >> =>
        /\ collected = Len(probes)
        /\ \A i \in DOMAIN probes : probes[i].state = "done"
        /\ \A t \in DOMAIN tasks :
              \E i \in DOMAIN probes :
                  /\ probes[i].category = tasks[t].category
                  /\ probes[i].sub_category = tasks[t].sub_category

\* C9 witness: a page task of the second of two pairs is being executed.
C9_Witness ==
    /\ Len(probes) = 2
    /\ \E t \in DOMAIN tasks :
          /\ tasks[t].pc = "fetch"
          /\ tasks[t].category = probes[2].category

\* C10: every submitted task is for a page in 1..pageCount of a probed pair
\* and is executed at most once; once phase 2 has submitted its tasks each
\* pair has exactly one task per page in 1..pageCount and none for any other
\* page, and when the run is over each task has been executed exactly once.
C10_OneTaskPerPage ==
    /\ \A t \in DOMAIN tasks :
          /\ tasks[t].runs <= 1
          /\ tasks[t].pc # "queued" => tasks[t].runs = 1
          /\ \E i \in DOMAIN probes :
                /\ TasksFor(i, tasks[t].page) = {t}
                /\ tasks[t].page \in 1 .. probes[i].num_pages
    /\ main_pc \in {"shutdown", "done"} =>
          /\ \A i \in DOMAIN probes :
                \A page \in 1 .. probes[i].num_pages :
                    Cardinality(TasksFor(i, page)) = 1
          /\ Len(tasks) = Len(queue)
                + Cardinality({t \in DOMAIN tasks : tasks[t].runs = 1})
    /\ main_pc = "done" => \A t \in DOMAIN tasks : tasks[t].runs = 1

\* C10 witness: the run is over, one pair had two pages and two tasks, the
\* other had none and no task.
C10_Witness ==
    /\ main_pc = "done"
    /\ Len(tasks) = 2
    /\ \E i, j \in DOMAIN probes :
          probes[i].num_pages = 2 /\ probes[j].num_pages = 0

\* n is the ceiling of total / count: the least n with n * count >= total.
IsCeiling(n, total, count) ==
    /\ n * count >= total
    /\ (n - 1) * count < total

\* C11: a probe that has read pagination_total >= 0 and pagination_count >= 1
\* returns, with the ceiling of pagination_total / pagination_count as its
\* page count.
C11_PageCountIsCeiling ==
    [][\A i \in DOMAIN probes :
          (/\ probes[i].state = "parsed"
           /\ probes[i].pagination_count >= 1
           /\ probes'[i].state # "parsed") =>
              /\ probes'[i].state = "done"
              /\ IsCeiling(probes'[i].num_pages, probes[i].pagination_total,
                           probes[i].pagination_count)]_vars

\* C11 witness: one probe has returned 2 pages and another has read a total
\* of 1 with 2 items per page, which does not divide.
C11_Witness ==
    \E i, j \in DOMAIN probes :
        /\ probes[i].state = "done"
        /\ probes[i].num_pages = 2
        /\ probes[j].state = "parsed"
        /\ probes[j].pagination_count = 2
        /\ probes[j].pagination_total = 1

\* C12: a probe that has read a pagination_count of 0 returns a page count of
\* 0 and does not fail.
C12_ZeroPerPageMeansNoPages ==
    [][\A i \in DOMAIN probes :
          (/\ probes[i].state = "parsed"
           /\ probes[i].pagination_count = 0
           /\ probes'[i].state # "parsed") =>
              /\ probes'[i].state = "done"
              /\ probes'[i].num_pages = 0]_vars

\* Lines 124-150: the messages main logs, in program order. Each is a fixed
\* string: no logger call of main interpolates a value.
MainMessages ==
    << "Begin scraping categories", "Stopped scraping categories",
       "Begin scraping number of pages", "Stopped scraping number of pages",
       "Begin scraping products information",
       "Stopped scraping products information", "Scraping done" >>

\* How many of its messages main has logged at each of its positions.
MainLogged ==
    CASE main_pc = "start" -> 0
      [] main_pc \in {"get_categories", "crashed"} -> 1
      [] main_pc = "pool_map" -> 2
      [] main_pc \in {"collect", "unwind", "raised"} -> 3
      [] main_pc \in {"submit", "shutdown"} -> 5
      [] main_pc = "done" -> 7

\* What main has reported so far: the text of each message and the values
\* formatted into it.
MainLog ==
    [k \in 1 .. MainLogged |-> [text |-> MainMessages[k], args |-> << >>]]

\* The pairs whose probe raised, and the page tasks that raised.
FailedProbes == {i \in DOMAIN probes : probes[i].state = "error"}
FailedTasks == {t \in DOMAIN tasks : tasks[t].pc = "failed"}

\* The numbers that main has reported.
Reported ==
    UNION {{MainLog[k].args[a] : a \in DOMAIN MainLog[k].args} :
              k \in DOMAIN MainLog}

\* C13: when the run has ended, main has reported the number of pairs whose
\* discovery failed and the number of page tasks that failed.
C13_RunReportsFailureCounts ==
    MainEnded =>
        /\ Cardinality(FailedProbes) \in Reported
        /\ Cardinality(FailedTasks) \in Reported

\* A step of main, of a probe or of a page task.
Progress ==
    \/ main_timestamp
    \/ get_categories
    \/ pool_map
    \/ \E i \in DOMAIN probes : get_num_pages_start(i)
    \/ \E i \in DOMAIN probes : get_num_pages_read(i)
    \/ \E i \in DOMAIN probes : get_num_pages(i)
    \/ collect
    \/ submit
    \/ pool_exit
    \/ \E t \in DOMAIN tasks : get_prices_start(t)
    \/ \E t \in DOMAIN tasks : get_prices_fetch(t)
    \/ \E t \in DOMAIN tasks : get_prices_filter(t)
    \/ \E t \in DOMAIN tasks : get_prices_update(t)
    \/ \E t \in DOMAIN tasks : get_prices_store(t)

\* C14: once get_categories has returned a mapping, the run can always take a
\* further step until main has reached its end, whichever probes and page
\* tasks fail.
C14_RunCompletes ==
    main_pc \notin {"start", "get_categories", "crashed"} =>
        (main_pc = "done" \/ ENABLED Progress)

\* The records of a batch.
Records(batch) == { batch[k] : k \in DOMAIN batch }

\* C15: the step in which a page task leaves its write either returns with
\* every record of its batch in the table, or raises with the table as it was
\* and no record of the batch in it.
C15_BatchIsAtomic ==
    [][\A t \in DOMAIN tasks :
          (tasks[t].pc = "store" /\ tasks'[t].pc # "store") =>
              \/ /\ tasks'[t].pc = "done"
                 /\ Records(tasks[t].price_tracks) \subseteq db'
              \/ /\ tasks'[t].pc = "failed"
                 /\ db' = db
                 /\ Records(tasks[t].price_tracks) \cap db' = {}]_vars

\* C15 witness: the write of a task that admitted both products failed, and
\* the table has a row of neither.
C15_Witness ==
    \E t \in DOMAIN tasks :
        /\ tasks[t].error = "store"
        /\ << "P1", t >> \in admitted
        /\ << "P2", t >> \in admitted
        /\ RowsOf("P1") = {}
        /\ RowsOf("P2") = {}

\* The product ids that task t admitted.
AdmittedBy(t) == { a[1] : a \in { b \in admitted : b[2] = t } }

\* C16: a page task that reaches its write with an empty batch leaves it by
\* returning, with the table as it was and without having opened a session.
C16_EmptyBatchWritesNothing ==
    [][\A t \in DOMAIN tasks :
          (/\ tasks[t].pc = "store"
           /\ tasks[t].price_tracks = << >>
           /\ tasks'[t].pc # "store") =>
              /\ tasks'[t].pc = "done"
              /\ tasks'[t].error = ""
              /\ tasks'[t].sessions = 0
              /\ db' = db]_vars

\* C16 witness: a task whose only candidates were claimed by a task of
\* another category pair has returned without a session, and the table has
\* the rows of the claimer.
C16_Witness ==
    \E t \in DOMAIN tasks :
        /\ tasks[t].pc = "done"
        /\ tasks[t].sessions = 0
        /\ AdmittedBy(t) = {}
        /\ contested # {}
        /\ \A id \in contested :
              /\ RowsOf(id) # {}
              /\ \A row \in RowsOf(id) : ~TaggedBy(row, t)

\* The product ids admitted by a task whose write failed.
LostClaims ==
    UNION { AdmittedBy(t) :
              t \in { u \in DOMAIN tasks : tasks[u].error = "store" } }

\* C17: no step removes a product id from to_be_inserted, and after every
\* step a product id admitted by a task whose write failed is in the
\* registry, was admitted by no other task and has no row in the table.
C17_RegistryOnlyGrows ==
    [][/\ to_be_inserted \subseteq to_be_inserted'
       /\ \A id \in LostClaims' :
             /\ id \in to_be_inserted'
             /\ Cardinality(Admitters(id)') = 1
             /\ RowsOf(id)' = {}]_vars

\* C17 witness: the run is over, the write of the task that admitted P1
\* failed, a task of another category pair listed P1 afterwards, and P1 is
\* still claimed and has no row.
C17_Witness ==
    /\ main_pc = "done"
    /\ "P1" \in LostClaims
    /\ "P1" \in contested
    /\ "P1" \in to_be_inserted
    /\ RowsOf("P1") = {}
    /\ \A t \in DOMAIN tasks : tasks[t].runs = 1

\* C18: whenever main is entered, for the first time or again after an
\* earlier run, to_be_inserted is empty.
C18_RegistryEmptyAtStart ==
    main_pc \in {"start", "again"} => to_be_inserted = {}

\* The product ids of a batch, one for each record of the batch.
IdList(batch) == [k \in DOMAIN batch |-> batch[k].product_id]

\* No two records of the batch have the same product id.
DistinctIds(batch) ==
    \A j, k \in DOMAIN batch : j # k => IdList(batch)[j] # IdList(batch)[k]

\* C19: of the records that page tasks hand to their write in one run, no two
\* have the same product id, in one batch or in two, and none has the
\* product id of a row of the table; so every batch meets the primary key.
C19_NoSharedProductId ==
    \A t \in DOMAIN tasks :
        tasks[t].pc = "store" =>
            /\ DistinctIds(tasks[t].price_tracks)
            /\ \A u \in DOMAIN tasks :
                  (u # t /\ tasks[u].pc = "store") =>
                      Ids(tasks[t].price_tracks) \cap
                          Ids(tasks[u].price_tracks) = {}
            /\ \A id \in Ids(tasks[t].price_tracks) : RowsOf(id) = {}
            /\ KeysFree(db, tasks[t].price_tracks)

\* C20: the lock is held only by a task that is between lines 110 and 112,
\* never by a task that is fetching or writing; so when no task is between
\* those lines, a task waiting at line 110 can take the lock.
C20_LockOnlyAroundClaim ==
    /\ to_be_inserted_lock # NoTask =>
          /\ to_be_inserted_lock \in DOMAIN tasks
          /\ tasks[to_be_inserted_lock].pc = "update"
    /\ \A t \in DOMAIN tasks :
          tasks[t].pc \in {"fetch", "store"} => to_be_inserted_lock # t
    /\ \A t \in DOMAIN tasks :
          (/\ tasks[t].pc = "lock"
           /\ \A u \in DOMAIN tasks : tasks[u].pc # "update") =>
              ENABLED get_prices_filter(t)

\* C20 witness: one task is writing a batch while another task, which came to
\* line 110 later, holds the lock.
C20_Witness ==
    \E t, u \in DOMAIN tasks :
        /\ tasks[t].pc = "store"
        /\ tasks[t].price_tracks # << >>
        /\ tasks[u].pc = "update"
        /\ to_be_inserted_lock = u

====
